---- MODULE Spec2Model ----
(***************************************************************************)
(* Smart-EMR backend: the retrieval index (rag_prototype.py), the summary  *)
(* cache (summary_cache table) and the provider fallback chains of the two *)
(* FastAPI applications (app.py, and app/main.py with its api routers).    *)
(*                                                                         *)
(* A text is a sequence of tokens: a token >= 1 is a word, the token 0 is  *)
(* a run of whitespace beyond the single separating blank, and NullT is    *)
(* the SQL NULL of the nullable column Note.text.                          *)
(***************************************************************************)
EXTENDS Integers, Sequences, FiniteSets, TLC

\* ------------------------------------------------------------------ bounds
NumPatients == 2
MaxNotes == 2
MaxRows == 2
MaxK == 2
MaxDocs == 1
MaxEmb == 2
NumReqs == 2
\* most words of a sentence and most bullets a model returns
MaxLineWords == 13
MaxBullets == 5
\* most tokens of a text, largest max_tokens and overlap given to chunk_text
MaxTextLen == 4
MaxTokens == 2
MaxOverlap == 2
\* notes in the table when the index of a populated database is built
MaxIndexed == 4

Patients == 1..NumPatients
NullT == <<-1>>
NoFile == <<-2>>
NoPatient == 0

\* ------------------------------------------------------------- state
VARIABLES
  patients,   \* ids of the rows of table patients
  notes,      \* table notes: notes[id] = [patient_id, text]; a deleted row keeps its id
  rows,       \* table summary_cache in insertion (= updated_at) order
  docs,       \* table medical_documents: docs[id] = [patient_id, has_text]
  hasHnsw,    \* HAS_HNSW of the process
  metaFile,   \* rag_meta.json
  embFile,    \* rag_embeddings.npy
  hnswFile,   \* rag_index.bin
  rMeta,      \* RAGIndex.meta of the long-lived index object
  rIndex,     \* RAGIndex.index of the long-lived index object
  qres,       \* outcome of the last RAGIndex.query
  resp,       \* outcome of the last request handler
  reqs,       \* the summarize requests in flight in concurrent workers
  ret,        \* the last call of a function of the wrappers or of chunk_text
  bld         \* the RAGIndex.build in progress in another process

vars == <<patients, notes, rows, docs, hasHnsw, metaFile, embFile, hnswFile,
          rMeta, rIndex, qres, resp, reqs, ret, bld>>

dbVars == <<patients, notes, rows, docs>>
ragVars == <<hasHnsw, metaFile, embFile, hnswFile, rMeta, rIndex, qres>>

\* ------------------------------------------------------------- helpers
Min(a, b) == IF a <= b THEN a ELSE b

Abs(a) == IF a >= 0 THEN a ELSE 0 - a

Range(s) == {s[i] : i \in 1..Len(s)}

Take(s, n) == SubSeq(s, 1, Min(n, Len(s)))

\* the sequences over S of length at most n
RECURSIVE SeqsUpTo(_, _)
SeqsUpTo(S, n) ==
  IF n = 0 THEN {<<>>}
  ELSE LET shorter == SeqsUpTo(S, n - 1)
       IN shorter \cup {Append(s, x) : s \in {t \in shorter : Len(t) = n - 1}, x \in S}

\* ------------------------------------------------------- rag_prototype.py
\* no build in progress
NoBuild == [pc |-> "idle", meta |-> <<>>]

\* str.split(): the words of a text
Words(text) == SelectSeq(text, LAMBDA t : t >= 1)

\* SentenceTransformer.encode followed by cosine similarity, abstracted to a
\* one-dimensional embedding: a text is embedded by its first word
Encode(text) ==
  LET w == Words(text) IN IF Len(w) = 0 THEN 0 ELSE w[1] % (MaxEmb + 1)

\* cosine distance of hnswlib (space='cosine') and the similarity 1 - distance
Dist(qe, e) == Abs(qe - e)

Sim(qe, e) == MaxEmb - Dist(qe, e)

NoteDeleted == [patient_id |-> NoPatient, text |-> NullT]

\* fetch_notes(db): every note, newest first, with text = n.text or ""
RECURSIVE fetch_notes(_, _)
fetch_notes(ns, i) ==
  IF i = 0 THEN <<>>
  ELSE IF ns[i] = NoteDeleted THEN fetch_notes(ns, i - 1)
  ELSE <<[id |-> i, patient_id |-> ns[i].patient_id,
          text |-> IF ns[i].text = NullT THEN <<>> ELSE ns[i].text]>>
       \o fetch_notes(ns, i - 1)

DefaultMaxTokens == 200
DefaultOverlap == 50

\* the chunks emitted by the while loop of chunk_text from window start i
RECURSIVE chunk_loop(_, _, _, _)
chunk_loop(words, i, max_tokens, overlap) ==
  IF i >= Len(words) THEN <<>>
  ELSE <<SubSeq(words, i + 1, Min(i + max_tokens, Len(words)))>>
       \o chunk_loop(words, i + max_tokens - overlap, max_tokens, overlap)

chunk_text(text, max_tokens, overlap) ==
  IF Len(Words(text)) <= max_tokens THEN <<text>>
  ELSE chunk_loop(Words(text), 0, max_tokens, overlap)

\* words[i:j] of Python for j >= i: a negative index counts from the end,
\* both ends are clamped to 0..len(words)
Clamp(words, i) ==
  IF i < 0 THEN (IF i + Len(words) < 0 THEN 0 ELSE i + Len(words))
  ELSE Min(i, Len(words))

Slice(words, i, j) == SubSeq(words, Clamp(words, i) + 1, Clamp(words, j))

\* chunk_text statement by statement. A call: its arguments
ChunkCalls ==
  {[fn |-> "call_chunk_text", text |-> c[1], max_tokens |-> c[2], overlap |-> c[3]] :
     c \in SeqsUpTo(0..2, MaxTextLen) \X (1..MaxTokens) \X (0..MaxOverlap)}

ChunkFrame(call, pc, i, chunks) ==
  [fn |-> "chunk_text", text |-> call.text, max_tokens |-> call.max_tokens,
   overlap |-> call.overlap, pc |-> pc, i |-> i, chunks |-> chunks]

\* return [text], had the words been joined again
ShortResult_Joined(text) == <<Words(text)>>

\* return [text]
ShortResult(text) == <<text>>

\* i += max_tokens, had the overlap been left out
NextStart_NoOverlap(i, max_tokens, overlap) == i + max_tokens

\* i += max_tokens - overlap
NextStart(i, max_tokens, overlap) == i + max_tokens - overlap

\* words = text.split(); a short text is returned as it is; else i = 0
ChunkEnter ==
  /\ ret.fn = "call_chunk_text"
  /\ ret' = IF Len(Words(ret.text)) <= ret.max_tokens
            THEN ChunkFrame(ret, "done", 0, ShortResult(ret.text))
            ELSE ChunkFrame(ret, "loop", 0, <<>>)
  /\ UNCHANGED <<dbVars, ragVars, resp, reqs, bld>>

\* one turn of the while loop; a loop that does not end is followed for
\* more turns than the text has words
ChunkStep ==
  /\ ret.fn = "chunk_text" /\ ret.pc = "loop"
  /\ ret.i < Len(Words(ret.text))
  /\ Len(ret.chunks) <= MaxTextLen + 1
  /\ ret' = ChunkFrame(ret, "loop", NextStart(ret.i, ret.max_tokens, ret.overlap),
                       Append(ret.chunks,
                              Slice(Words(ret.text), ret.i, ret.i + ret.max_tokens)))
  /\ UNCHANGED <<dbVars, ragVars, resp, reqs, bld>>

\* the loop condition fails: return chunks
ChunkReturn ==
  /\ ret.fn = "chunk_text" /\ ret.pc = "loop"
  /\ ret.i >= Len(Words(ret.text))
  /\ ret' = ChunkFrame(ret, "done", ret.i, ret.chunks)
  /\ UNCHANGED <<dbVars, ragVars, resp, reqs, bld>>

\* the meta entries RAGIndex.build makes of one note
NoteMeta(n) ==
  LET chunks == IF Len(n.text) > 0
                THEN chunk_text(n.text, DefaultMaxTokens, DefaultOverlap) ELSE <<>>
  IN [c \in 1..Len(chunks) |->
        [note_id |-> n.id, patient_id |-> n.patient_id, text_snippet |-> chunks[c]]]

RECURSIVE BuildMeta(_)
BuildMeta(all_notes) ==
  IF Len(all_notes) = 0 THEN <<>>
  ELSE NoteMeta(Head(all_notes)) \o BuildMeta(Tail(all_notes))

Embeddings(meta) == [i \in 1..Len(meta) |-> Encode(meta[i].text_snippet)]

\* candidate_indices of RAGIndex.query (0-based labels)
Candidates_NoFilter(meta, patient_id) ==
  SelectSeq([i \in 1..Len(meta) |-> i - 1], LAMBDA l : TRUE)

Candidates(meta, patient_id) ==
  SelectSeq([i \in 1..Len(meta) |-> i - 1],
            LAMBDA l : patient_id = NoPatient \/ meta[l + 1].patient_id = patient_id)

\* what index.knn_query(query_emb, k = n) may return: n distinct labels of the
\* index in order of non-decreasing distance (the search is approximate, so
\* any n elements may be the ones found)
KnnResults(index, qe, n) ==
  {s \in SeqsUpTo(0..(Len(index) - 1), n) :
      /\ Len(s) = n
      /\ \A i, j \in 1..n : i < j =>
            /\ s[i] # s[j]
            /\ Dist(qe, index[s[i] + 1]) <= Dist(qe, index[s[j] + 1])}

\* the for loop over zip(labels, distances) of the hnswlib branch
RECURSIVE HnswFilter(_, _, _, _, _, _)
HnswFilter(meta, cands, index, qe, labels, k) ==
  IF Len(labels) = 0 THEN <<>>
  ELSE LET lbl == Head(labels)
       IN IF lbl \in Range(cands)
          THEN <<[score |-> Sim(qe, index[lbl + 1]), meta |-> meta[lbl + 1]]>>
               \o (IF 1 >= k THEN <<>>
                   ELSE HnswFilter(meta, cands, index, qe, Tail(labels), k - 1))
          ELSE HnswFilter(meta, cands, index, qe, Tail(labels), k)

\* sorted(..., key=score, reverse=True): a stable insertion sort
RECURSIVE InsertByScore(_, _)
InsertByScore(sorted, h) ==
  IF Len(sorted) = 0 THEN <<h>>
  ELSE IF Head(sorted).score >= h.score
       THEN <<Head(sorted)>> \o InsertByScore(Tail(sorted), h)
       ELSE <<h>> \o sorted

\* the scored candidates left in index order
SortByScore_Unsorted(hits) == hits

RECURSIVE SortByScore(_)
SortByScore(hits) ==
  IF Len(hits) = 0 THEN <<>>
  ELSE InsertByScore(SortByScore(SubSeq(hits, 1, Len(hits) - 1)), hits[Len(hits)])

\* the brute-force branch: score the candidates, sort, truncate
BruteForce(meta, cands, embeddings, qe, k) ==
  Take(SortByScore([i \in 1..Len(cands) |->
          [score |-> Sim(qe, embeddings[cands[i] + 1]), meta |-> meta[cands[i] + 1]]]), k)

Raised == <<[score |-> -1, meta |-> [note_id |-> 0, patient_id |-> NoPatient, text_snippet |-> <<>>]]>>

\* the query, had the brute-force branch opened rag_embeddings.npy unchecked
QueryLoaded_NoEmbCheck(meta, index, emb, patient_id, qe, k, labels) ==
  LET cands == Candidates(meta, patient_id)
  IN IF Len(meta) = 0 THEN <<>>
     ELSE IF Len(cands) = 0 THEN <<>>
     ELSE IF index # NoFile
          THEN IF Min(k * 3, Len(meta)) > Len(index) THEN Raised
               ELSE HnswFilter(meta, cands, index, qe, labels, k)
          ELSE IF emb = NoFile THEN Raised
               ELSE IF \E i \in 1..Len(cands) : cands[i] + 1 > Len(emb) THEN Raised
                    ELSE BruteForce(meta, cands, emb, qe, k)

\* RAGIndex.query on an object whose fields are (meta, index) after the lazy
\* load; labels is the answer of knn_query.  Raised stands for an exception.
QueryLoaded(meta, index, emb, patient_id, qe, k, labels) ==
  LET cands == Candidates(meta, patient_id)
  IN IF Len(meta) = 0 THEN <<>>
     ELSE IF Len(cands) = 0 THEN <<>>
     ELSE IF index # NoFile
          THEN IF Min(k * 3, Len(meta)) > Len(index) THEN Raised
               ELSE HnswFilter(meta, cands, index, qe, labels, k)
          ELSE IF emb = NoFile THEN <<>>
               ELSE IF \E i \in 1..Len(cands) : cands[i] + 1 > Len(emb) THEN Raised
                    ELSE BruteForce(meta, cands, emb, qe, k)

\* the labels knn_query can answer for this query (<<>> when it is not called)
KnnFor(meta, index, qe, k) ==
  IF index = NoFile \/ Len(meta) = 0 \/ Min(k * 3, Len(meta)) > Len(index)
  THEN {<<>>}
  ELSE KnnResults(index, qe, Min(k * 3, Len(meta)))

\* RAGIndex.load: the index field after loading the files
LoadedIndex == IF hasHnsw /\ hnswFile # NoFile THEN hnswFile ELSE NoFile

NoQuery ==
  [patient_id |-> NoPatient, qe |-> 0, k |-> 0, hits |-> <<>>, branch |-> "none"]

\* the body of RAGIndex.build() once fetch_notes has returned all_notes
BuildFrom(all_notes) ==
  LET meta == BuildMeta(all_notes)
      embeddings == Embeddings(meta)
  IN /\ IF Len(meta) = 0
        THEN /\ rMeta' = <<>>
             /\ rIndex' = NoFile
             /\ metaFile' = <<>>
             /\ UNCHANGED <<embFile, hnswFile>>
        ELSE /\ IF hasHnsw
                THEN /\ rIndex' = embeddings
                     /\ hnswFile' = embeddings
                     /\ UNCHANGED embFile
                ELSE /\ embFile' = embeddings
                     /\ rIndex' = NoFile
                     /\ UNCHANGED hnswFile
             /\ rMeta' = meta
             /\ metaFile' = meta
     /\ UNCHANGED <<dbVars, reqs, ret, bld, hasHnsw, qres, resp>>

\* RAGIndex.build(): rebuild the persisted index from the notes table
Build == BuildFrom(fetch_notes(notes, Len(notes)))

\* a note row with the note_date its client gave (create_note)
DatedNote(pid, text, date) == [patient_id |-> pid, text |-> text, note_date |-> date]

\* the orders in which ORDER BY note_date DESC may return the rows: rows of
\* one note_date come in any order
DateOrders(ns) ==
  {o \in [1..Len(ns) -> 1..Len(ns)] :
      /\ \A i, j \in 1..Len(ns) : i # j => o[i] # o[j]
      /\ \A i, j \in 1..Len(ns) : i < j => ns[o[i]].note_date >= ns[o[j]].note_date}

\* fetch_notes(db) answered in the order o
fetch_notes_in(ns, o) ==
  [i \in 1..Len(ns) |-> [id |-> o[i], patient_id |-> ns[o[i]].patient_id, text |-> ns[o[i]].text]]

\* RAGIndex.build() over a table of dated notes
BuildDated == \E o \in DateOrders(notes) : BuildFrom(fetch_notes_in(notes, o))

\* build() of a RAGIndex in another process, statement by statement: fetch
\* and encode the notes; from no text, store empty metadata and return
BuildBegin ==
  LET meta == BuildMeta(fetch_notes(notes, Len(notes)))
  IN /\ bld.pc = "idle"
     /\ IF Len(meta) = 0
        THEN /\ metaFile' = <<>>
             /\ bld' = NoBuild
        ELSE /\ bld' = [pc |-> "save_index", meta |-> meta]
             /\ UNCHANGED metaFile
     /\ UNCHANGED <<dbVars, reqs, ret, hasHnsw, embFile, hnswFile, rMeta, rIndex, qres, resp>>

\* p.save_index(INDEX_PATH), or np.save of the embeddings without hnswlib
BuildSaveIndex ==
  /\ bld.pc = "save_index"
  /\ IF hasHnsw
     THEN hnswFile' = Embeddings(bld.meta) /\ UNCHANGED embFile
     ELSE embFile' = Embeddings(bld.meta) /\ UNCHANGED hnswFile
  /\ bld' = [bld EXCEPT !.pc = "save_meta"]
  /\ UNCHANGED <<dbVars, reqs, ret, hasHnsw, metaFile, rMeta, rIndex, qres, resp>>

\* self.meta = meta; self._save_meta()
BuildSaveMeta ==
  /\ bld.pc = "save_meta"
  /\ metaFile' = bld.meta
  /\ bld' = NoBuild
  /\ UNCHANGED <<dbVars, reqs, ret, hasHnsw, embFile, hnswFile, rMeta, rIndex, qres, resp>>

\* RAGIndex.load()
Load ==
  /\ rMeta' = metaFile
  /\ rIndex' = LoadedIndex
  /\ UNCHANGED <<dbVars, reqs, ret, bld, hasHnsw, metaFile, embFile, hnswFile, qres, resp>>

\* a new process constructs a RAGIndex (query_cli, the summarize handler)
NewIndexObject ==
  /\ rMeta # <<>> \/ rIndex # NoFile
  /\ rMeta' = <<>>
  /\ rIndex' = NoFile
  /\ UNCHANGED <<dbVars, reqs, ret, bld, hasHnsw, metaFile, embFile, hnswFile, qres, resp>>

\* RAGIndex.query(patient_id, q, k), q given by its embedding
Query(patient_id, qe, k) ==
  LET lazy == Len(rMeta) = 0
      meta == IF lazy THEN metaFile ELSE rMeta
      index == IF lazy THEN LoadedIndex ELSE rIndex
  IN \E labels \in KnnFor(meta, index, qe, k) :
       /\ rMeta' = meta
       /\ rIndex' = index
       /\ qres' = [patient_id |-> patient_id, qe |-> qe, k |-> k,
                   hits |-> QueryLoaded(meta, index, embFile, patient_id, qe, k, labels),
                   branch |-> IF Len(meta) = 0 \/ Len(Candidates(meta, patient_id)) = 0
                              THEN "none"
                              ELSE IF index # NoFile THEN "hnsw" ELSE "brute"]
       /\ UNCHANGED <<dbVars, reqs, ret, bld, hasHnsw, metaFile, embFile, hnswFile, resp>>

\* --------------------------------------------------- generation providers
\* Outcome of one provider attempt inside a handler:
\*   "ok"       generate_json_summary returned a dict with one_line and bullets
\*   "odd"      it returned a dict lacking one of the two keys
\*   "raise"    the module was imported and the call raised
\*   "noimport" the import statement raised, the provider was not invoked
Fails == {"raise", "noimport"}

\* openrouter_wrapper and cohere_wrapper, ollama_wrapper, gpt4all_wrapper
\* return a dict with both keys or raise; hf_wrapper returns a parsed dict
\* with one_line as it is; gemini_wrapper and mock_ai_wrapper are not part
\* of the repository, their import may raise
WinKinds(provider) ==
  IF provider \in {"huggingface", "gemini", "mock_ai"} THEN {"ok", "odd"} ELSE {"ok"}

FailKinds(provider) ==
  IF provider \in {"openrouter", "gemini", "mock_ai"} THEN {"raise", "noimport"}
  ELSE {"raise"}

\* the try blocks of _try_generate_summary_with_providers, in order
GenerateOrder ==
  <<"openrouter", "cohere", "huggingface", "ollama", "gpt4all", "mock_ai">>

\* the try blocks of _try_answer_with_providers, in order
AnswerOrder ==
  <<"openrouter", "gemini", "cohere", "huggingface", "ollama", "gpt4all", "mock_ai">>

\* the attempts of the summarize endpoint of app/api/summarize.py: OpenRouter,
\* Gemini, then _try_generate_summary_with_providers
ApiSummarizeOrder == <<"openrouter", "gemini">> \o GenerateOrder

\* the attempts of summarize in app.py
AppSummarizeOrder == <<"openrouter", "gemini", "cohere">>

\* the outcome vectors a request can meet on a chain: attempts fail until one
\* returns (the attempts after it are never made)
RECURSIVE ChainOuts(_)
ChainOuts(order) ==
  IF Len(order) = 0 THEN {<<>>}
  ELSE {<<w>> \o [i \in 1..(Len(order) - 1) |-> "raise"] : w \in WinKinds(Head(order))}
       \cup {<<f>> \o t : f \in FailKinds(Head(order)), t \in ChainOuts(Tail(order))}

Won(order, outs) == \E i \in 1..Len(order) : outs[i] \notin Fails

FirstWin(order, outs) ==
  CHOOSE i \in 1..Len(order) : outs[i] \notin Fails /\ \A j \in 1..(i - 1) : outs[j] \in Fails

\* a module is importable or not for the whole request: two attempts on the
\* same provider agree on "noimport"
Consistent(order, outs) ==
  LET last == IF Won(order, outs) THEN FirstWin(order, outs) ELSE Len(order)
  IN \A i, j \in 1..last :
       order[i] = order[j] => ((outs[i] = "noimport") <=> (outs[j] = "noimport"))

ConsistentOuts(order) == {outs \in ChainOuts(order) : Consistent(order, outs)}

GenerateOuts == ConsistentOuts(GenerateOrder)
AnswerOuts == ConsistentOuts(AnswerOrder)
ApiSummarizeOuts == ConsistentOuts(ApiSummarizeOrder)
AppSummarizeOuts == ConsistentOuts(AppSummarizeOrder)

\* a sequence of try/except blocks, each importing and calling one provider
\* and returning its output with its name: the attempts made, each with its
\* outcome, and the index of the attempt that returned (0 when all raised)
Call(provider, out) == [p |-> provider, out |-> out]

RECURSIVE TryProviders_NoStop(_, _, _)
TryProviders_NoStop(order, outs, i) ==
  IF i > Len(order) THEN [calls |-> <<>>, winner |-> 0]
  ELSE LET rest == TryProviders_NoStop(order, outs, i + 1)
       IN IF outs[i] = "noimport" THEN rest
          ELSE [calls |-> <<Call(order[i], outs[i])>> \o rest.calls,
                winner |-> IF outs[i] = "raise" THEN rest.winner ELSE i]

RECURSIVE TryProviders(_, _, _)
TryProviders(order, outs, i) ==
  IF i > Len(order) THEN [calls |-> <<>>, winner |-> 0]
  ELSE IF outs[i] = "noimport" THEN TryProviders(order, outs, i + 1)
  ELSE IF outs[i] = "raise"
       THEN LET rest == TryProviders(order, outs, i + 1)
            IN [calls |-> <<Call(order[i], "raise")>> \o rest.calls, winner |-> rest.winner]
       ELSE [calls |-> <<Call(order[i], outs[i])>>, winner |-> i]

\* the value a chain returns: (output, provider name), or a raised exception
ChainResult(order, outs) ==
  LET t == TryProviders(order, outs, 1)
  IN [calls |-> t.calls,
      provider |-> IF t.winner = 0 THEN "none" ELSE order[t.winner],
      out |-> IF t.winner = 0 THEN "raise" ELSE outs[t.winner]]

_try_generate_summary_with_providers(outs) == ChainResult(GenerateOrder, outs)

_try_answer_with_providers(outs) == ChainResult(AnswerOrder, outs)

\* --------------------------------------- the wrappers' post-processing
\* A sentence is its words and whether "..." was appended; the words are
\* short enough for the character limits of ollama_wrapper and
\* gpt4all_wrapper (150, 200, 100) never to cut one, and longer than 5
\* characters.
NoRet == [fn |-> "none"]

Sentence(n) == [words |-> [i \in 1..n |-> 1], ellipsis |-> FALSE]

OneLineBudget == 12

HF_BULLET_WORD_LIMIT == 12

\* the sentences a model writes, with no "..." of its own
RawSentences == {Sentence(n) : n \in 0..MaxLineWords}

\* a parsed model output holding both keys; bullets are one word long or
\* the longest
RawContracts ==
  [one_line : RawSentences,
   bullets : SeqsUpTo({Sentence(1), Sentence(MaxLineWords)}, MaxBullets)]

\* words = s.strip().split(): " ".join(words), or the first max_words of
\* them and "..."
_shorten_sentence(s, max_words) ==
  LET words == Words(s.words)
  IN IF Len(words) <= max_words THEN [words |-> words, ellipsis |-> s.ellipsis]
     ELSE [words |-> Take(words, max_words), ellipsis |-> TRUE]

\* hf_wrapper: a body that is the summary object itself is returned as it
\* is (direct); one found in generated text is shortened
HfContract(raw, direct) ==
  IF direct THEN raw
  ELSE [one_line |-> _shorten_sentence(raw.one_line, OneLineBudget),
        bullets |-> [i \in 1..Min(4, Len(raw.bullets)) |->
                       _shorten_sentence(raw.bullets[i], HF_BULLET_WORD_LIMIT)]]

\* ollama_wrapper and gpt4all_wrapper: defaults for an empty one_line or no
\* bullet left, at most 4 bullets, limits in characters only
LocalContract(raw, default_line, default_bullet) ==
  LET kept == SelectSeq(Take(raw.bullets, 4), LAMBDA b : Len(b.words) > 0)
  IN [one_line |-> IF Len(raw.one_line.words) = 0 THEN Sentence(default_line)
                   ELSE raw.one_line,
      bullets |-> IF Len(kept) = 0 THEN <<Sentence(default_bullet)>> ELSE kept]

SummaryProviders == {"openrouter", "cohere", "huggingface", "ollama", "gpt4all"}

\* generate_json_summary of each wrapper on an output that passed its
\* schema check
Contract(provider, raw, direct) ==
  CASE provider = "huggingface" -> HfContract(raw, direct)
    [] provider = "ollama" -> LocalContract(raw, 6, 8)
    [] provider = "gpt4all" -> LocalContract(raw, 4, 4)
    [] OTHER -> raw

\* a call of a wrapper's generate_json_summary whose model output is raw
SummaryCalls ==
  {[fn |-> "call_generate_json_summary", provider |-> c[1], raw |-> c[2], direct |-> c[3]] :
     c \in {d \in SummaryProviders \X RawContracts \X BOOLEAN :
              d[3] => d[1] = "huggingface"}}

GenerateJsonSummary ==
  /\ ret.fn = "call_generate_json_summary"
  /\ ret' = [fn |-> "generate_json_summary", provider |-> ret.provider, raw |-> ret.raw,
             contract |-> Contract(ret.provider, ret.raw, ret.direct)]
  /\ UNCHANGED <<dbVars, ragVars, resp, reqs, bld>>

\* a sentence with a run of two blanks between its words
SpacedSentence == [words |-> <<1, 0, 1>>, ellipsis |-> FALSE]

\* a JSON number: whole part and tenths
Num(whole, tenths) == <<whole, tenths>>

\* int(x) and float(x) of Python on a number
PyInt(x) == Num(x[1], 0)

PyFloat(x) == x

\* the contracts that meet the prompt: one_line within 12 words, 2 to 4
\* bullets within their budget, sources of numeric note_id and score
ValidSentences == {Sentence(1), Sentence(OneLineBudget), SpacedSentence}

ValidSources ==
  {<<>>} \cup {<<[note_id |-> n, score |-> Num(0, 9)]>> : n \in {Num(1, 0), Num(1, 5)}}

ValidContracts ==
  {c \in [one_line : ValidSentences, bullets : SeqsUpTo({Sentence(1), SpacedSentence}, 4),
           sources : ValidSources] : Len(c.bullets) >= 2}

\* json.dumps of a contract: the text of an object, its members in order
JsonDumps(c) ==
  <<[key |-> "one_line", value |-> c.one_line], [key |-> "bullets", value |-> c.bullets],
    [key |-> "sources", value |-> c.sources]>>

HasKey(text, key) == \E i \in 1..Len(text) : text[i].key = key

\* json.loads: a dict; the last member of a key wins
ValueOf(text, key) ==
  text[CHOOSE i \in 1..Len(text) :
         text[i].key = key /\ \A j \in (i + 1)..Len(text) : text[j].key # key].value

JsonLoads(text) == [key \in {text[i].key : i \in 1..Len(text)} |-> ValueOf(text, key)]

SchemaError == [error |-> "missing required keys"]

SchemaOk(parsed) == "one_line" \in DOMAIN parsed /\ "bullets" \in DOMAIN parsed

\* cohere_wrapper: normalize sources to int note_id and float score
NormalizeSources(parsed) ==
  IF "sources" \in DOMAIN parsed
  THEN [parsed EXCEPT !.sources =
          [i \in 1..Len(parsed.sources) |->
             [note_id |-> PyInt(parsed.sources[i].note_id),
              score |-> PyFloat(parsed.sources[i].score)]]]
  ELSE parsed

\* hf_wrapper, the object found in the generated text: brevity enforced
HfShorten(parsed) ==
  [parsed EXCEPT !.one_line = _shorten_sentence(parsed.one_line, OneLineBudget),
                 !.bullets = [i \in 1..Min(4, Len(parsed.bullets)) |->
                                _shorten_sentence(parsed.bullets[i], HF_BULLET_WORD_LIMIT)]]

ValidateProviders == {"openrouter", "cohere", "huggingface"}

\* the steps of generate_json_summary after the model has answered text
ParseAndValidate(provider, text) ==
  LET parsed == JsonLoads(text)
  IN IF ~SchemaOk(parsed) THEN SchemaError
     ELSE CASE provider = "cohere" -> NormalizeSources(parsed)
            [] provider = "huggingface" -> HfShorten(parsed)
            [] OTHER -> parsed

ValidateCalls ==
  {[fn |-> "call_validate", provider |-> c[1], contract |-> c[2]] :
     c \in ValidateProviders \X ValidContracts}

Validate ==
  /\ ret.fn = "call_validate"
  /\ ret' = [fn |-> "validate", provider |-> ret.provider, contract |-> ret.contract,
             out |-> ParseAndValidate(ret.provider, JsonDumps(ret.contract))]
  /\ UNCHANGED <<dbVars, ragVars, resp, reqs, bld>>

\* ------------------------------------------- cohere_wrapper._call_generate
\* stop_after_attempt(4)
StopAfterAttempt == 4

\* what the Cohere endpoint does during one attempt: it answers, or every SDK
\* call of the attempt raises the named exception
NetOutcomes == {"ok", "HTTPError", "RequestException", "ValueError"}

Transient == {"HTTPError", "RequestException"}

\* the SDK calls of one attempt, each inside its own try/except Exception:
\* responses.create, chat.create, then the loop over GEN_MODEL_FALLBACKS
Interfaces == <<"responses", "chat", "fallbacks">>

\* the tuple given to retry_if_exception_type: the classes of
\* requests.exceptions, or Exception twice when requests does not import
RetryTypes(requests) == IF requests THEN {"HTTPError", "RequestException"} ELSE {"Exception"}

\* isinstance(exc, types); HTTPError derives from RequestException
IsInstance(exc, types) ==
  \/ exc \in types
  \/ "Exception" \in types
  \/ exc = "HTTPError" /\ "RequestException" \in types

\* the decision of the @retry decorator on an exception leaving
\* _call_generate: the no-op decorator of a missing tenacity never retries
Retried(exc, tenacity, requests, attempt) ==
  tenacity /\ IsInstance(exc, RetryTypes(requests)) /\ attempt < StopAfterAttempt

\* out = _call_generate(prompt) of generate_json_summary, in an environment
\* with or without tenacity and requests, over each behaviour of the endpoint
CohereCalls ==
  {[fn |-> "call_cohere", tenacity |-> t, requests |-> r, net |-> n] :
     t \in BOOLEAN, r \in BOOLEAN, n \in [1..StopAfterAttempt -> NetOutcomes]}

CohereFrame(c, attempt, step, last_err, out) ==
  [fn |-> "cohere", tenacity |-> c.tenacity, requests |-> c.requests, net |-> c.net,
   attempt |-> attempt, step |-> step, last_err |-> last_err, out |-> out]

\* the first attempt begins
CohereEnter ==
  /\ ret.fn = "call_cohere"
  /\ ret' = CohereFrame(ret, 1, 1, "None", "pending")
  /\ UNCHANGED <<dbVars, ragVars, resp, reqs, bld>>

\* one SDK call: its text is returned, or its exception is kept in last_err
\* and the next interface is tried
CohereSdkCall ==
  /\ ret.fn = "cohere"
  /\ ret.out = "pending"
  /\ ret.step <= Len(Interfaces)
  /\ ret' = IF ret.net[ret.attempt] = "ok"
             THEN CohereFrame(ret, ret.attempt, ret.step, ret.last_err, "text")
             ELSE CohereFrame(ret, ret.attempt, ret.step + 1, ret.net[ret.attempt], "pending")
  /\ UNCHANGED <<dbVars, ragVars, resp, reqs, bld>>

\* no interface worked: raise RuntimeError(...) from last_err, which the
\* decorator retries or lets through to generate_json_summary
CohereRaise ==
  /\ ret.fn = "cohere"
  /\ ret.out = "pending"
  /\ ret.step > Len(Interfaces)
  /\ ret' = IF Retried("RuntimeError", ret.tenacity, ret.requests, ret.attempt)
             THEN CohereFrame(ret, ret.attempt + 1, 1, "None", "pending")
             ELSE CohereFrame(ret, ret.attempt, ret.step, ret.last_err, "raise")
  /\ UNCHANGED <<dbVars, ragVars, resp, reqs, bld>>

\* ------------------------------------------------------- summary_cache
CacheRow(pid, source, payload) ==
  [patient_id |-> pid, source |-> source, payload |-> payload, expired |-> FALSE]

\* db.query(SummaryCache).filter(SummaryCache.patient_id == pid)
RowsOf(pid) == SelectSeq(rows, LAMBDA r : r.patient_id = pid)

\* the patient's rows, had the filter on updated_at been left out
FreshRowsOf_AnyAge(pid) == RowsOf(pid)

\* ... .filter(SummaryCache.updated_at >= cache_cutoff)
FreshRowsOf(pid) == SelectSeq(rows, LAMBDA r : r.patient_id = pid /\ ~r.expired)

\* ... .order_by(SummaryCache.updated_at.desc()).first(), on a non-empty result
Newest(rs) == rs[Len(rs)]

\* the cache check of app/api/summarize.py: the newest row younger than one
\* hour, served when its payload parses
ApiCached(pid) == Len(FreshRowsOf(pid)) > 0 /\ Newest(FreshRowsOf(pid)).payload # "malformed"

\* the cache check of app.py, had json.loads accepted any text
AppCached_Unparsed(pid, dbr) == dbr /\ Len(RowsOf(pid)) > 0

\* the cache check of app.py: the newest row whatever its age, served when the
\* query succeeds (dbr) and the payload parses
AppCached(pid, dbr) == dbr /\ Len(RowsOf(pid)) > 0 /\ Newest(RowsOf(pid)).payload # "malformed"

\* the delete, had the filter on patient_id been left out
DeleteRowsOf_Unfiltered(pid) == <<>>

\* db.query(SummaryCache).filter(SummaryCache.patient_id == pid).delete()
DeleteRowsOf(pid) == SelectSeq(rows, LAMBDA r : r.patient_id # pid)

\* the notes of a patient in id order: db.query(Note).filter(patient_id == pid).all()
NotesOf(pid) == SelectSeq(notes, LAMBDA n : n.patient_id = pid)

NoResp == [op |-> "none", pid |-> NoPatient, status |-> 0, kind |-> "none",
           provider |-> "none", calls |-> <<>>, payload |-> "none", n |-> 0,
           queried |-> FALSE]

Resp(op, pid, status, kind, provider, calls, payload, n) ==
  [op |-> op, pid |-> pid, status |-> status, kind |-> kind,
   provider |-> provider, calls |-> calls, payload |-> payload, n |-> n,
   queried |-> FALSE]

\* the response of a handler that has run RAGIndex.query
Queried(r) == [r EXCEPT !.queried = TRUE]

\* the response served from a cache row, with a query run before the lookup
CachedResp_AfterQuery(op, pid, row) ==
  Queried(Resp(op, pid, 200, "cached", row.source, <<>>, row.payload, 0))

\* the response served from a cache row: its payload with its source
CachedResp(op, pid, row) == Resp(op, pid, 200, "cached", row.source, <<>>, row.payload, 0)

\* one hour has passed since some row was stored: it and the older rows are
\* now older than the cache_cutoff of app/api/summarize.py
TimePasses ==
  /\ \E j \in 1..Len(rows) :
       /\ ~rows[j].expired
       /\ rows' = [i \in 1..Len(rows) |->
                     IF i <= j THEN [rows[i] EXCEPT !.expired = TRUE] ELSE rows[i]]
  /\ UNCHANGED <<patients, notes, docs, ragVars, reqs, ret, bld, resp>>

\* ------------------------------------------- app/api/summarize.py summarize
\* the list comprehension n.text[:50] over notes[:3] of the except handler
\* raises TypeError on a note whose text is NULL
ApiFallbackRaises(ns) == \E i \in 1..Min(3, Len(ns)) : ns[i].text = NullT

\* the table after the deterministic fallback of either summarize endpoint:
\* the fallback is returned without a cache write
FallbackRows_Stored(pid) == Append(rows, CacheRow(pid, "fallback", "contract"))

FallbackRows(pid) == rows

PayloadOf(out) == IF out = "ok" THEN "contract" ELSE "translated"

\* the cache write of the endpoint: delete the patient's rows, add one, commit
ApiPut(pid, source, payload, dbw) ==
  IF dbw THEN Append(DeleteRowsOf(pid), CacheRow(pid, source, payload)) ELSE rows

\* POST /patients/{patient_id}/summarize of app/main.py.  dbr, dbw: whether the
\* read and the write of summary_cache succeed
ApiSummarize(pid, outs, dbr, dbw) ==
  LET fresh == FreshRowsOf(pid)
      ns == NotesOf(pid)
      op == "api_summarize"
  IN /\ UNCHANGED <<patients, notes, docs, ragVars, reqs, ret, bld>>
     /\ IF pid \notin patients
        THEN /\ resp' = Resp(op, pid, 404, "notfound", "none", <<>>, "none", 0)
             /\ UNCHANGED rows
        ELSE IF ~dbr
        THEN /\ resp' = Resp(op, pid, 500, "error", "none", <<>>, "none", 0)
             /\ UNCHANGED rows
        ELSE IF ApiCached(pid)
        THEN /\ resp' = CachedResp(op, pid, Newest(fresh))
             /\ UNCHANGED rows
        ELSE IF Len(ns) = 0
        THEN /\ resp' = Resp(op, pid, 200, "placeholder", "none", <<>>, "none", 0)
             /\ UNCHANGED rows
        ELSE LET c == ChainResult(ApiSummarizeOrder, outs)
             IN IF c.out = "raise"
                THEN /\ rows' = FallbackRows(pid)
                     /\ resp' = IF ApiFallbackRaises(ns)
                                THEN Resp(op, pid, 500, "fallback_error", "none", c.calls,
                                          "none", 0)
                                ELSE Resp(op, pid, 200, "fallback", "none", c.calls,
                                          "none", Min(3, Len(ns)))
                ELSE /\ Len(ApiPut(pid, c.provider, PayloadOf(c.out), dbw)) <= MaxRows
                     /\ rows' = ApiPut(pid, c.provider, PayloadOf(c.out), dbw)
                     /\ resp' = Resp(op, pid, 200,
                                     IF c.out = "ok" THEN "generated" ELSE "translated",
                                     c.provider, c.calls, PayloadOf(c.out), 0)

\* ------------------------------------------------------- app.py summarize
\* the nested try blocks of summarize: a failed import of openrouter_wrapper
\* leaves the whole block, a failed call goes on to Gemini and Cohere
AppChain(outs) ==
  IF outs[1] = "noimport"
  THEN [calls |-> <<>>, provider |-> "none", out |-> "raise"]
  ELSE ChainResult(AppSummarizeOrder, outs)

\* persist to cache: db.add(SummaryCache(...)); db.commit()
AppPut(pid, source, payload, dbw) ==
  IF dbw THEN Append(rows, CacheRow(pid, source, payload)) ELSE rows

\* the embedding of the query text f"summarize patient {pid}"
SummarizeQuery(pid) == pid % (MaxEmb + 1)

\* POST /patients/{pid}/summarize of app.py.  ragOk: rag_prototype imports
AppSummarize(pid, k, outs, ragOk, dbr, dbw) ==
  LET cached == RowsOf(pid)
      op == "app_summarize"
      qe == SummarizeQuery(pid)
  IN /\ UNCHANGED <<patients, notes, docs, ragVars, reqs, ret, bld>>
     /\ IF ~ragOk
        THEN /\ resp' = Resp(op, pid, 200, "unavailable", "none", <<>>, "none", 0)
             /\ UNCHANGED rows
        ELSE IF AppCached(pid, dbr)
        THEN /\ resp' = CachedResp(op, pid, Newest(cached))
             /\ UNCHANGED rows
        ELSE \E labels \in KnnFor(metaFile, LoadedIndex, qe, k) :
               LET hits == QueryLoaded(metaFile, LoadedIndex, embFile, pid, qe, k, labels)
               IN IF hits = Raised
                  THEN /\ resp' = Queried(Resp(op, pid, 500, "error", "none", <<>>, "none", 0))
                       /\ UNCHANGED rows
                  ELSE LET c == AppChain(outs)
                       IN IF c.out = "raise"
                          THEN /\ rows' = FallbackRows(pid)
                               /\ resp' = Queried(Resp(op, pid, 200, "fallback", "none", c.calls,
                                                       "none", Len(hits)))
                          ELSE /\ dbw => Len(rows) < MaxRows
                               /\ rows' = AppPut(pid, c.provider,
                                                 IF c.out = "ok" THEN "contract" ELSE "odd", dbw)
                               /\ resp' = Queried(Resp(op, pid, 200,
                                               IF c.out = "ok" THEN "generated" ELSE "odd",
                                               c.provider, c.calls,
                                               IF c.out = "ok" THEN "contract" ELSE "odd", 0))

\* ---------------------------------------------------------- note handlers
Note(pid, text) == [patient_id |-> pid, text |-> text]

NoteExists(id) == id \in 1..Len(notes) /\ notes[id] # NoteDeleted

\* the invalidation of app.py: delete the patient's rows and commit; when the
\* delete raises, roll back
Invalidate(pid, dbw) == IF dbw THEN DeleteRowsOf(pid) ELSE rows

\* POST /patients/{pid}/notes of app.py (add_note)
AppAddNote(pid, text, dbw) ==
  /\ UNCHANGED <<patients, docs, ragVars, reqs, ret, bld>>
  /\ IF pid \notin patients
     THEN /\ resp' = Resp("app_add_note", pid, 404, "notfound", "none", <<>>, "none", 0)
          /\ UNCHANGED <<notes, rows>>
     ELSE /\ Len(notes) < MaxNotes
          /\ notes' = Append(notes, Note(pid, text))
          /\ rows' = Invalidate(pid, dbw)
          /\ resp' = Resp("app_add_note", pid, 200, "note", "none", <<>>, "none", 0)

\* DELETE /notes/{note_id} of app.py (delete_note)
AppDeleteNote(id, dbw) ==
  /\ UNCHANGED <<patients, docs, ragVars, reqs, ret, bld>>
  /\ IF ~NoteExists(id)
     THEN /\ resp' = Resp("app_delete_note", NoPatient, 404, "notfound", "none", <<>>, "none", id)
          /\ UNCHANGED <<notes, rows>>
     ELSE /\ notes' = [notes EXCEPT ![id] = NoteDeleted]
          /\ rows' = Invalidate(notes[id].patient_id, dbw)
          /\ resp' = Resp("app_delete_note", notes[id].patient_id, 200, "ok", "none", <<>>,
                          "none", id)

\* POST /patients/{patient_id}/notes of app/api/notes.py (create_note)
ApiCreateNote(pid, text) ==
  /\ UNCHANGED <<patients, docs, rows, ragVars, reqs, ret, bld>>
  /\ IF pid \notin patients
     THEN /\ resp' = Resp("api_create_note", pid, 404, "notfound", "none", <<>>, "none", 0)
          /\ UNCHANGED notes
     ELSE /\ Len(notes) < MaxNotes
          /\ notes' = Append(notes, Note(pid, text))
          /\ resp' = Resp("api_create_note", pid, 200, "note", "none", <<>>, "none", 0)

\* PUT /patients/notes/{note_id} of app/api/notes.py (update_note)
ApiUpdateNote(id, text) ==
  /\ UNCHANGED <<patients, docs, rows, ragVars, reqs, ret, bld>>
  /\ IF ~NoteExists(id)
     THEN /\ resp' = Resp("api_update_note", NoPatient, 404, "notfound", "none", <<>>, "none", id)
          /\ UNCHANGED notes
     ELSE /\ notes' = [notes EXCEPT ![id].text = text]
          /\ resp' = Resp("api_update_note", notes[id].patient_id, 200, "note", "none", <<>>,
                          "none", id)

\* DELETE /patients/notes/{note_id} of app/api/notes.py (delete_note)
ApiDeleteNote(id) ==
  /\ UNCHANGED <<patients, docs, rows, ragVars, reqs, ret, bld>>
  /\ IF ~NoteExists(id)
     THEN /\ resp' = Resp("api_delete_note", NoPatient, 404, "notfound", "none", <<>>, "none", id)
          /\ UNCHANGED notes
     ELSE /\ notes' = [notes EXCEPT ![id] = NoteDeleted]
          /\ resp' = Resp("api_delete_note", notes[id].patient_id, 200, "ok", "none", <<>>,
                          "none", id)

\* ------------------------------------------------------- patient handlers
DocDeleted == [patient_id |-> NoPatient, has_text |-> FALSE]

\* DELETE /patients/{patient_id} of app.py: the notes and documents go too
AppDeletePatient(pid) ==
  /\ UNCHANGED <<rows, ragVars, reqs, ret, bld>>
  /\ IF pid \notin patients
     THEN /\ resp' = Resp("app_delete_patient", pid, 404, "notfound", "none", <<>>, "none", 0)
          /\ UNCHANGED <<patients, notes, docs>>
     ELSE /\ notes' = [i \in 1..Len(notes) |->
                         IF notes[i].patient_id = pid THEN NoteDeleted ELSE notes[i]]
          /\ docs' = [i \in 1..Len(docs) |->
                        IF docs[i].patient_id = pid THEN DocDeleted ELSE docs[i]]
          /\ patients' = patients \ {pid}
          /\ resp' = Resp("app_delete_patient", pid, 200, "deleted", "none", <<>>, "none", 0)

\* DELETE /patients/{patient_id} of app/api/patients.py
ApiDeletePatient(pid) ==
  /\ UNCHANGED <<notes, docs, rows, ragVars, reqs, ret, bld>>
  /\ IF pid \notin patients
     THEN /\ resp' = Resp("api_delete_patient", pid, 404, "notfound", "none", <<>>, "none", 0)
          /\ UNCHANGED patients
     ELSE /\ patients' = patients \ {pid}
          /\ resp' = Resp("api_delete_patient", pid, 200, "deleted", "none", <<>>, "none", 0)

\* ------------------------------------------------------ document handlers
Doc(pid, has_text) == [patient_id |-> pid, has_text |-> has_text]

DocExists(pid, id) == id \in 1..Len(docs) /\ docs[id] # DocDeleted /\ docs[id].patient_id = pid

\* the text of the note made of an OCR result
OcrNoteText == <<1>>

\* POST /patients/{patient_id}/upload-document of app.py.  ocr is what the OCR
\* step does: "raise", "empty" (no text), "short" (a text on which
\* create_medical_note_from_ocr returns None: confidence below 10 or fewer
\* than 20 characters) or "text"
AppUploadDocument(pid, ocr, dbw) ==
  /\ UNCHANGED <<patients, ragVars, reqs, ret, bld>>
  /\ IF pid \notin patients
     THEN /\ resp' = Resp("app_upload", pid, 404, "notfound", "none", <<>>, "none", 0)
          /\ UNCHANGED <<notes, docs, rows>>
     ELSE /\ Len(docs) < MaxDocs
          /\ docs' = Append(docs, Doc(pid, ocr # "empty"))
          /\ resp' = Resp("app_upload", pid, 200,
                          IF ocr = "text" THEN "uploaded_note" ELSE "uploaded",
                          "none", <<>>, "none", 0)
          /\ IF ocr = "text"
             THEN /\ Len(notes) < MaxNotes
                  /\ notes' = Append(notes, Note(pid, OcrNoteText))
                  /\ rows' = Invalidate(pid, dbw)
             ELSE UNCHANGED <<notes, rows>>

\* POST /patients/{patient_id}/upload-document of app/api/documents.py
ApiUploadDocument(pid, ocr) ==
  /\ UNCHANGED <<patients, rows, ragVars, reqs, ret, bld>>
  /\ IF pid \notin patients
     THEN /\ resp' = Resp("api_upload", pid, 404, "notfound", "none", <<>>, "none", 0)
          /\ UNCHANGED <<notes, docs>>
     ELSE /\ Len(docs) < MaxDocs
          /\ docs' = Append(docs, Doc(pid, ocr \in {"text", "short"}))
          /\ resp' = Resp("api_upload", pid, 200,
                          IF ocr = "raise" THEN "failed"
                          ELSE IF ocr = "empty" THEN "uploaded" ELSE "uploaded_note",
                          "none", <<>>, "none", 0)
          /\ IF ocr \in {"text", "short"}
             THEN /\ Len(notes) < MaxNotes
                  /\ notes' = Append(notes, Note(pid, OcrNoteText))
             ELSE UNCHANGED notes

\* DELETE /patients/{patient_id}/documents/{document_id} of app.py
AppDeleteDocument(pid, id) ==
  /\ UNCHANGED <<patients, notes, rows, ragVars, reqs, ret, bld>>
  /\ IF ~DocExists(pid, id)
     THEN /\ resp' = Resp("app_delete_document", pid, 404, "notfound", "none", <<>>, "none", id)
          /\ UNCHANGED docs
     ELSE /\ docs' = [docs EXCEPT ![id] = DocDeleted]
          /\ resp' = Resp("app_delete_document", pid, 200, "deleted", "none", <<>>, "none", id)

\* DELETE /patients/{patient_id}/documents/{document_id} of app/api/documents.py
ApiDeleteDocument(pid, id) ==
  /\ UNCHANGED <<patients, notes, rows, ragVars, reqs, ret, bld>>
  /\ IF ~DocExists(pid, id)
     THEN /\ resp' = Resp("api_delete_document", pid, 404, "notfound", "none", <<>>, "none", id)
          /\ UNCHANGED docs
     ELSE /\ docs' = [docs EXCEPT ![id] = DocDeleted]
          /\ resp' = Resp("api_delete_document", pid, 200, "deleted", "none", <<>>, "none", id)

\* POST .../documents/{document_id}/summarize of app.py: a canned summary
AppSummarizeDocument(pid, id) ==
  /\ UNCHANGED <<dbVars, ragVars, reqs, ret, bld>>
  /\ resp' = IF ~DocExists(pid, id)
             THEN Resp("app_summarize_document", pid, 404, "notfound", "none", <<>>, "none", id)
             ELSE IF ~docs[id].has_text
             THEN Resp("app_summarize_document", pid, 400, "notext", "none", <<>>, "none", id)
             ELSE Resp("app_summarize_document", pid, 200, "canned", "none", <<>>, "none", id)

\* POST .../documents/{document_id}/summarize of app/api/documents.py
ApiSummarizeDocument(pid, id, outs) ==
  /\ UNCHANGED <<dbVars, ragVars, reqs, ret, bld>>
  /\ IF ~DocExists(pid, id)
     THEN resp' = Resp("api_summarize_document", pid, 404, "notfound", "none", <<>>, "none", id)
     ELSE IF ~docs[id].has_text
     THEN resp' = Resp("api_summarize_document", pid, 400, "notext", "none", <<>>, "none", id)
     ELSE LET c == _try_generate_summary_with_providers(outs)
          IN resp' = IF c.out = "raise"
                       THEN Resp("api_summarize_document", pid, 500, "error", "none", c.calls,
                                 "none", id)
                       ELSE Resp("api_summarize_document", pid, 200, "generated", c.provider,
                                 c.calls, IF c.out = "ok" THEN "contract" ELSE "odd", id)

\* ------------------------------------------------------------ qa handlers
\* POST /patients/{patient_id}/qa of app/api/qa.py
ApiQa(pid, outs) ==
  /\ UNCHANGED <<dbVars, ragVars, reqs, ret, bld>>
  /\ IF pid \notin patients
     THEN resp' = Resp("api_qa", pid, 404, "notfound", "none", <<>>, "none", 0)
     ELSE LET c == _try_answer_with_providers(outs)
          IN resp' = IF c.out = "raise"
                       THEN Resp("api_qa", pid, 200, "error_answer", "none", c.calls, "none", 0)
                       ELSE Resp("api_qa", pid, 200, "answer", c.provider, c.calls,
                                 IF c.out = "ok" THEN "contract" ELSE "odd",
                                 Min(3, Len(NotesOf(pid))))

QaK == 5
\* similarity levels standing for the score thresholds 0.05 and 0.2 of app.py
RetrievedThreshold == 0
ContextThreshold == 1

AppQaOrder == <<"openrouter", "gemini">>
AppQaOuts == ConsistentOuts(AppQaOrder)

\* POST /patients/{pid}/qa of app.py, the question given by its embedding
AppQa(pid, qe, outs, ragOk) ==
  /\ UNCHANGED <<dbVars, ragVars, reqs, ret, bld>>
  /\ IF pid \notin patients
     THEN resp' = Resp("app_qa", pid, 404, "notfound", "none", <<>>, "none", 0)
     ELSE IF ~ragOk
     THEN resp' = Resp("app_qa", pid, 200, "unavailable", "none", <<>>, "none", 0)
     ELSE \E labels \in KnnFor(metaFile, LoadedIndex, qe, QaK) :
            LET hits == QueryLoaded(metaFile, LoadedIndex, embFile, pid, qe, QaK, labels)
                retrieved == SelectSeq(hits, LAMBDA h : h.score > RetrievedThreshold)
                context == SelectSeq(hits, LAMBDA h : h.score > ContextThreshold)
            IN IF hits = Raised
               THEN resp' = Queried(Resp("app_qa", pid, 200, "unavailable", "none", <<>>,
                                         "none", 0))
               ELSE IF Len(retrieved) = 0
               THEN resp' = Queried(Resp("app_qa", pid, 200, "nothing", "none", <<>>, "none", 0))
               ELSE LET c == ChainResult(AppQaOrder, outs)
                    IN resp' = IF c.out = "raise"
                                 THEN Queried(Resp("app_qa", pid, 200,
                                           IF Len(context) > 0 THEN "context" ELSE "nothing",
                                           "none", c.calls, "none", Min(2, Len(context))))
                                 ELSE Queried(Resp("app_qa", pid, 200,
                                           IF c.out = "ok" THEN "answer" ELSE "format_issue",
                                           c.provider, c.calls, "none", Len(retrieved)))

\* ------------------------------------- summarize requests, step by step
\* A summarize request served by a worker of its own (app.py and app/main.py
\* are two processes on one database): the handler's position between its
\* cache check, the provider calls and the cache write.  Each database
\* statement or transaction takes effect at once.
Reqs == 1..NumReqs

\* seen: the notes of the patient the request has read and generates from
Req(pc, site, pid, kind, provider) ==
  [pc |-> pc, site |-> site, pid |-> pid, kind |-> kind, provider |-> provider, seen |-> <<>>]

\* notes = db.query(Note).filter(Note.patient_id == patient_id).all()
Seen(q, ns) == [q EXCEPT !.seen = ns]

IdleReq == Req("idle", "none", NoPatient, "none", "none")

\* the request arrives: site "api" is app/api/summarize.py, "app" is app.py
ReqBegin(r, site, pid) ==
  /\ reqs[r].pc = "idle"
  /\ reqs' = [reqs EXCEPT ![r] = Req("lookup", site, pid, "none", "none")]
  /\ UNCHANGED <<dbVars, ragVars, resp, ret, bld>>

\* the cache check, and for app/api/summarize.py the query of the notes
ReqLookup(r) ==
  LET q == reqs[r]
      hit == IF q.site = "api" THEN ApiCached(q.pid) ELSE AppCached(q.pid, TRUE)
  IN /\ q.pc = "lookup"
     /\ reqs' = [reqs EXCEPT ![r] =
                   IF hit THEN Req("done", q.site, q.pid, "cached", "none")
                   ELSE IF q.site = "api" /\ Len(NotesOf(q.pid)) = 0
                        THEN Req("done", q.site, q.pid, "placeholder", "none")
                        ELSE Seen(Req("generate", q.site, q.pid, "none", "none"),
                                  IF q.site = "api" THEN NotesOf(q.pid) ELSE <<>>)]
     /\ UNCHANGED <<dbVars, ragVars, resp, ret, bld>>

\* retrieval and the provider chain of the site; app.py reads the notes here,
\* through an index taken as built from the current notes
ReqGenerate(r, outs) ==
  LET q == reqs[r]
      order == IF q.site = "api" THEN ApiSummarizeOrder ELSE AppSummarizeOrder
      c == IF q.site = "api" THEN ChainResult(ApiSummarizeOrder, outs) ELSE AppChain(outs)
  IN /\ q.pc = "generate"
     /\ Len(outs) = Len(order)
     /\ reqs' = [reqs EXCEPT ![r] =
                   IF c.out = "raise" THEN Req("done", q.site, q.pid, "fallback", "none")
                   ELSE Seen(Req("store", q.site, q.pid, "none", c.provider),
                             IF q.site = "api" THEN q.seen ELSE NotesOf(q.pid))]
     /\ UNCHANGED <<dbVars, ragVars, resp, ret, bld>>

\* the cache write of the site, committed
ReqStore(r) ==
  LET q == reqs[r]
      put == IF q.site = "api" THEN ApiPut(q.pid, q.provider, "contract", TRUE)
             ELSE AppPut(q.pid, q.provider, "contract", TRUE)
  IN /\ q.pc = "store"
     /\ Len(put) <= MaxRows
     /\ rows' = put
     /\ reqs' = [reqs EXCEPT ![r] = Req("done", q.site, q.pid, "generated", q.provider)]
     /\ UNCHANGED <<patients, notes, docs, ragVars, resp, ret, bld>>

\* ----------------------------------------------------------- specifications
\* the texts a client sends: app.py stores note.get('text', '') as it is, null
\* included; NoteIn and NoteUpdate of app/api/notes.py require a str
AppTexts == {NullT, <<>>}
ApiTexts == {<<2>>}
OcrKinds == {"raise", "empty", "short", "text"}

\* seed_db.py followed by `rag_prototype.py build`: a patient with a note,
\* the other patients without, and the index built from the notes
SeedNotes == <<Note(1, <<1>>)>>

SeedMeta == BuildMeta(fetch_notes(SeedNotes, Len(SeedNotes)))

InitBase ==
  /\ patients = Patients
  /\ notes = SeedNotes
  /\ rows = <<>>
  /\ docs = <<>>
  /\ resp = NoResp
  /\ reqs = [r \in Reqs |-> IdleReq]
  /\ hasHnsw \in BOOLEAN
  /\ metaFile = SeedMeta
  /\ embFile = IF hasHnsw THEN NoFile ELSE Embeddings(SeedMeta)
  /\ hnswFile = IF hasHnsw THEN Embeddings(SeedMeta) ELSE NoFile
  /\ rMeta = <<>>
  /\ rIndex = NoFile
  /\ qres = NoQuery
  /\ bld = NoBuild

Init == InitBase /\ ret = NoRet

\* the provider outcomes of the specifications that are not about the order
\* of the providers: OpenRouter answers, or every attempt raises
OutsFew(order) ==
  {outs \in ConsistentOuts(order) : outs[1] = "ok" \/ \A i \in 1..Len(order) : outs[i] = "raise"}

\* ---- Spec: the generating requests of both applications over every
\* provider outcome, against a cache store that rejects writes
Next ==
  \/ \E pid \in Patients, outs \in ApiSummarizeOuts : ApiSummarize(pid, outs, TRUE, FALSE)
  \/ \E pid \in Patients, k \in 1..MaxK, outs \in AppSummarizeOuts :
       AppSummarize(pid, k, outs, TRUE, TRUE, FALSE)
  \/ \E pid \in Patients, outs \in AnswerOuts : ApiQa(pid, outs)
  \/ \E pid \in Patients, qe \in 0..MaxEmb, outs \in AppQaOuts : AppQa(pid, qe, outs, TRUE)
  \/ \E pid \in Patients : AppUploadDocument(pid, "short", FALSE)
  \/ \E pid \in Patients, id \in 1..MaxDocs, outs \in GenerateOuts :
       ApiSummarizeDocument(pid, id, outs)

Spec == Init /\ [][Next]_vars

\* ---- SpecFail: every request with all providers failing or the first one
\* answering, over notes with null or empty text and documents of every kind
NextFail ==
  \/ \E pid \in Patients, outs \in OutsFew(ApiSummarizeOrder) :
       ApiSummarize(pid, outs, TRUE, FALSE)
  \/ \E pid \in Patients, k \in 1..MaxK, outs \in OutsFew(AppSummarizeOrder), ragOk \in BOOLEAN :
       AppSummarize(pid, k, outs, ragOk, TRUE, FALSE)
  \/ \E pid \in Patients, outs \in OutsFew(AnswerOrder) : ApiQa(pid, outs)
  \/ \E pid \in Patients, qe \in 0..MaxEmb, outs \in OutsFew(AppQaOrder), ragOk \in BOOLEAN :
       AppQa(pid, qe, outs, ragOk)
  \/ \E pid \in Patients, id \in 1..MaxDocs, outs \in OutsFew(GenerateOrder) :
       ApiSummarizeDocument(pid, id, outs)
  \/ \E pid \in Patients, id \in 1..MaxDocs : AppSummarizeDocument(pid, id)
  \/ \E pid \in Patients, text \in AppTexts : AppAddNote(pid, text, FALSE)
  \/ \E pid \in Patients, ocr \in OcrKinds : ApiUploadDocument(pid, ocr)

SpecFail == Init /\ [][NextFail]_vars

\* ---- SpecCache: summarize requests, the invalidating note handlers of
\* app.py and the passing of time, with database statements that may fail
NextCache ==
  \/ \E pid \in Patients, outs \in OutsFew(ApiSummarizeOrder), dbr, dbw \in BOOLEAN :
       ApiSummarize(pid, outs, dbr, dbw)
  \/ \E pid \in Patients, outs \in OutsFew(AppSummarizeOrder), dbr, dbw \in BOOLEAN :
       AppSummarize(pid, 1, outs, TRUE, dbr, dbw)
  \/ \E pid \in Patients, dbw \in BOOLEAN : AppAddNote(pid, <<1>>, dbw)
  \/ \E id \in 1..MaxNotes, dbw \in BOOLEAN : AppDeleteNote(id, dbw)
  \/ TimePasses

SpecCache == Init /\ [][NextCache]_vars

\* ---- SpecNotes: every handler that changes notes, documents or patients,
\* with summarize requests that fill the cache
NextNotes ==
  \/ \E pid \in Patients, outs \in {o \in OutsFew(ApiSummarizeOrder) : o[1] = "ok"} :
       ApiSummarize(pid, outs, TRUE, TRUE)
  \/ \E pid \in Patients : AppAddNote(pid, <<1>>, TRUE)
  \/ \E id \in 1..MaxNotes : AppDeleteNote(id, TRUE)
  \/ \E pid \in Patients : ApiCreateNote(pid, <<1>>)
  \/ \E id \in 1..MaxNotes, text \in ApiTexts : ApiUpdateNote(id, text)
  \/ \E id \in 1..MaxNotes : ApiDeleteNote(id)
  \/ \E pid \in Patients : AppDeletePatient(pid)
  \/ \E pid \in Patients : ApiDeletePatient(pid)
  \/ \E pid \in Patients : AppUploadDocument(pid, "text", TRUE)
  \/ \E pid \in Patients : ApiUploadDocument(pid, "text")
  \/ \E pid \in Patients, id \in 1..MaxDocs : AppDeleteDocument(pid, id)
  \/ \E pid \in Patients, id \in 1..MaxDocs : ApiDeleteDocument(pid, id)

SpecNotes == Init /\ [][NextNotes]_vars

\* ---- SpecRag: the index life cycle (build, load, query) while notes are
\* added through app.py
RagTexts == {<<1>>, <<2>>}

NextRag ==
  \/ \E pid \in Patients, text \in RagTexts : AppAddNote(pid, text, FALSE)
  \/ Build
  \/ Load
  \/ NewIndexObject
  \/ \E pid \in Patients \cup {NoPatient}, qe \in 0..MaxEmb, k \in 1..MaxK : Query(pid, qe, k)

SpecRag == Init /\ [][NextRag]_vars

\* ---- SpecOverfetch: queries for the best hit (k = 1) on the index built
\* from a table of MaxIndexed one-chunk notes
InitOverfetch ==
  /\ patients = Patients
  /\ notes \in [1..MaxIndexed -> {Note(p, t) : p \in Patients, t \in RagTexts}]
  /\ rows = <<>>
  /\ docs = <<>>
  /\ resp = NoResp
  /\ reqs = [r \in Reqs |-> IdleReq]
  /\ hasHnsw \in BOOLEAN
  /\ metaFile = BuildMeta(fetch_notes(notes, Len(notes)))
  /\ embFile = IF hasHnsw THEN NoFile ELSE Embeddings(metaFile)
  /\ hnswFile = IF hasHnsw THEN Embeddings(metaFile) ELSE NoFile
  /\ rMeta = <<>>
  /\ rIndex = NoFile
  /\ qres = NoQuery
  /\ ret = NoRet
  /\ bld = NoBuild

NextOverfetch ==
  \/ Load
  \/ NewIndexObject
  \/ \E pid \in Patients, qe \in 1..MaxEmb : Query(pid, qe, 1)

SpecOverfetch == InitOverfetch /\ [][NextOverfetch]_vars

\* ---- SpecLazy: the index life cycle from every state of the index files:
\* never written, written from no note, removed, or written by a process
\* with the other setting of HAS_HNSW
InitLazy ==
  /\ patients = Patients
  /\ notes = SeedNotes
  /\ rows = <<>>
  /\ docs = <<>>
  /\ resp = NoResp
  /\ reqs = [r \in Reqs |-> IdleReq]
  /\ hasHnsw \in BOOLEAN
  /\ metaFile \in {<<>>, SeedMeta}
  /\ embFile \in {NoFile, Embeddings(SeedMeta)}
  /\ hnswFile \in {NoFile, Embeddings(SeedMeta)}
  /\ rMeta = <<>>
  /\ rIndex = NoFile
  /\ qres = NoQuery
  /\ ret = NoRet
  /\ bld = NoBuild

NextLazy ==
  \/ \E id \in 1..MaxNotes : AppDeleteNote(id, FALSE)
  \/ Build
  \/ Load
  \/ NewIndexObject
  \/ \E pid \in Patients \cup {NoPatient}, k \in 1..MaxK : Query(pid, 1, k)

SpecLazy == InitLazy /\ [][NextLazy]_vars

\* ---- SpecBuild: a build in one process interleaved with load and query of
\* a RAGIndex in another, while notes are added
NextBuild ==
  \/ \E pid \in Patients, text \in RagTexts : AppAddNote(pid, text, FALSE)
  \/ BuildBegin
  \/ BuildSaveIndex
  \/ BuildSaveMeta
  \/ Load
  \/ NewIndexObject
  \/ \E pid \in Patients, qe \in 0..MaxEmb, k \in 1..MaxK : Query(pid, qe, k)

SpecBuild == Init /\ [][NextBuild]_vars

\* ---- SpecRebuild: builds and queries without hnswlib over a table of
\* MaxNotes notes posted with dates of their clients, first built once
DatedNotes ==
  [1..MaxNotes -> {DatedNote(p, t, d) : p \in Patients, t \in RagTexts, d \in 1..2}]

InitRebuild ==
  /\ patients = Patients
  /\ notes \in DatedNotes
  /\ rows = <<>>
  /\ docs = <<>>
  /\ resp = NoResp
  /\ reqs = [r \in Reqs |-> IdleReq]
  /\ hasHnsw = FALSE
  /\ \E o \in DateOrders(notes) : metaFile = BuildMeta(fetch_notes_in(notes, o))
  /\ embFile = Embeddings(metaFile)
  /\ hnswFile = NoFile
  /\ rMeta = <<>>
  /\ rIndex = NoFile
  /\ qres = NoQuery
  /\ ret = NoRet
  /\ bld = NoBuild

NextRebuild ==
  \/ BuildDated
  \/ Load
  \/ NewIndexObject
  \/ \E pid \in Patients, qe \in 0..MaxEmb, k \in 1..MaxK : Query(pid, qe, k)

SpecRebuild == InitRebuild /\ [][NextRebuild]_vars

\* ---- SpecFresh: summarize requests at both sites and app.py's add_note on
\* a working database, while cache rows age
NextFresh ==
  \/ \E pid \in Patients, outs \in OutsFew(ApiSummarizeOrder) : ApiSummarize(pid, outs, TRUE, TRUE)
  \/ \E pid \in Patients, outs \in OutsFew(AppSummarizeOrder) :
       AppSummarize(pid, 1, outs, TRUE, TRUE, TRUE)
  \/ \E pid \in Patients : AppAddNote(pid, <<1>>, TRUE)
  \/ TimePasses

SpecFresh == Init /\ [][NextFresh]_vars

\* ---- SpecRoundTrip: every contract that meets the prompt, serialized and
\* given to the parse-and-validate steps of a wrapper
InitRoundTrip == InitBase /\ ret \in ValidateCalls

NextRoundTrip == Validate

SpecRoundTrip == InitRoundTrip /\ [][NextRoundTrip]_vars

\* ---- SpecMalformed: summarize requests at both sites on a working database
\* whose summary_cache holds a row that is not JSON
InitMalformed ==
  /\ patients = Patients
  /\ notes = SeedNotes
  /\ \E p \in Patients : rows = <<CacheRow(p, "openrouter", "malformed")>>
  /\ docs = <<>>
  /\ resp = NoResp
  /\ reqs = [r \in Reqs |-> IdleReq]
  /\ hasHnsw \in BOOLEAN
  /\ metaFile = SeedMeta
  /\ embFile = IF hasHnsw THEN NoFile ELSE Embeddings(SeedMeta)
  /\ hnswFile = IF hasHnsw THEN Embeddings(SeedMeta) ELSE NoFile
  /\ rMeta = <<>>
  /\ rIndex = NoFile
  /\ qres = NoQuery
  /\ ret = NoRet
  /\ bld = NoBuild

NextMalformed ==
  \/ \E pid \in Patients, outs \in OutsFew(ApiSummarizeOrder) : ApiSummarize(pid, outs, TRUE, TRUE)
  \/ \E pid \in Patients, outs \in OutsFew(AppSummarizeOrder) :
       AppSummarize(pid, 1, outs, TRUE, TRUE, TRUE)
  \/ TimePasses

SpecMalformed == InitMalformed /\ [][NextMalformed]_vars

\* ---- SpecCohere: one call of cohere_wrapper._call_generate
InitCohere == InitBase /\ ret \in CohereCalls

NextCohere ==
  \/ CohereEnter
  \/ CohereSdkCall
  \/ CohereRaise

SpecCohere == InitCohere /\ [][NextCohere]_vars

\* ---- SpecConc: summarize requests of concurrent workers, at both sites
NextConc ==
  \/ \E r \in Reqs, site \in {"api", "app"}, pid \in Patients : ReqBegin(r, site, pid)
  \/ \E r \in Reqs : ReqLookup(r)
  \/ \E r \in Reqs, outs \in OutsFew(ApiSummarizeOrder) \cup OutsFew(AppSummarizeOrder) :
       ReqGenerate(r, outs)
  \/ \E r \in Reqs : ReqStore(r)

SpecConc == Init /\ [][NextConc]_vars

\* ---- SpecStale: summarize requests of concurrent workers while app.py
\* creates and deletes notes, each with its invalidation
NextStale ==
  \/ \E r \in Reqs, site \in {"api", "app"}, pid \in Patients : ReqBegin(r, site, pid)
  \/ \E r \in Reqs : ReqLookup(r)
  \/ \E r \in Reqs, outs \in OutsFew(ApiSummarizeOrder) \cup OutsFew(AppSummarizeOrder) :
       ReqGenerate(r, outs)
  \/ \E r \in Reqs : ReqStore(r)
  \/ \E pid \in Patients : AppAddNote(pid, <<1>>, TRUE)
  \/ \E id \in 1..MaxNotes : AppDeleteNote(id, TRUE)

SpecStale == Init /\ [][NextStale]_vars

\* ---- SpecLocal: summarize at both sites and the invalidating note handlers
\* of app.py, over patients with rows of their own
NextLocal ==
  \/ \E pid \in Patients, outs \in OutsFew(ApiSummarizeOrder) : ApiSummarize(pid, outs, TRUE, TRUE)
  \/ \E pid \in Patients, outs \in OutsFew(AppSummarizeOrder) :
       AppSummarize(pid, 1, outs, TRUE, TRUE, TRUE)
  \/ \E pid \in Patients : AppAddNote(pid, <<1>>, TRUE)
  \/ \E id \in 1..MaxNotes : AppDeleteNote(id, TRUE)
  \/ TimePasses

SpecLocal == Init /\ [][NextLocal]_vars

\* ---- SpecBrevity: every wrapper on every parsed output holding both keys
InitBrevity == InitBase /\ ret \in SummaryCalls

NextBrevity == GenerateJsonSummary

SpecBrevity == InitBrevity /\ [][NextBrevity]_vars

\* ---- SpecChunk: chunk_text on every text, window and overlap
InitChunk == InitBase /\ ret \in ChunkCalls

NextChunk == ChunkEnter \/ ChunkStep \/ ChunkReturn

SpecChunk == InitChunk /\ [][NextChunk]_vars

\* ------------------------------------------------------------- properties
\* C1: patient scoping.  Every hit of a query for a patient carries that
\* patient's id, on the hnswlib branch and on the brute-force branch.
PatientScoped ==
  \A i \in 1..Len(qres.hits) :
     (qres.patient_id # NoPatient /\ qres.hits # Raised)
        => qres.hits[i].meta.patient_id = qres.patient_id

\* a query for one patient answered with hits on the hnswlib branch while the
\* index also holds chunks of another patient
PatientScopedWitness ==
  /\ qres.patient_id # NoPatient
  /\ qres.branch = "hnsw"
  /\ Len(qres.hits) >= 1
  /\ \E i \in 1..Len(rMeta) : rMeta[i].patient_id # qres.patient_id

\* the handlers that create, edit or delete a note, a document or a patient
MutationOps ==
  {"app_add_note", "app_delete_note", "api_create_note", "api_update_note",
   "api_delete_note", "app_delete_document", "api_delete_document",
   "app_delete_patient", "api_delete_patient"}

\* C2: every mutation of a patient's notes or documents invalidates the
\* cache.  After a handler of either application has created, updated or
\* deleted a note, uploaded a document that made a note, deleted a document
\* or deleted the patient, no summary_cache row of that patient remains.
MutationInvalidates ==
  (/\ resp.status = 200
   /\ \/ resp.op \in MutationOps
      \/ resp.op \in {"app_upload", "api_upload"} /\ resp.kind = "uploaded_note")
    => RowsOf(resp.pid) = <<>>

\* C3: invalidate then get.  Right after add_note or delete_note of app.py
\* has run its invalidation for a patient, a cache lookup for that patient
\* finds no entry at either endpoint, also when the delete statement raised.
InvalidateThenMiss ==
  (resp.op \in {"app_add_note", "app_delete_note"} /\ resp.status = 200)
    => ~ApiCached(resp.pid) /\ ~AppCached(resp.pid, TRUE)

\* C4: at most one cache row per patient after any sequence of summarize
\* requests at both endpoints, whatever the age of the prior row and whether
\* or not its lookup succeeded.
AtMostOneRow == \A p \in Patients : Len(RowsOf(p)) <= 1

\* the requests for patient p that called the providers and wrote the cache
GeneratedBy(p) == {r \in Reqs : reqs[r].pid = p /\ reqs[r].kind = "generated"}

\* C5: concurrent summarize requests for one patient do not both run the
\* providers and write the cache, and they leave at most one row.
SingleFlight ==
  \A p \in Patients : Cardinality(GeneratedBy(p)) <= 1 /\ Len(RowsOf(p)) <= 1

\* a is b with some elements left out
RECURSIVE IsSubseq(_, _)
IsSubseq(a, b) ==
  IF Len(a) = 0 THEN TRUE
  ELSE IF Len(b) = 0 THEN FALSE
  ELSE IF Head(a) = Head(b) THEN IsSubseq(Tail(a), Tail(b))
  ELSE IsSubseq(a, Tail(b))

\* the priority order of the providers, and the order of the summary helper
\* (which has no Gemini block)
PriorityOrder ==
  <<"openrouter", "gemini", "cohere", "huggingface", "ollama", "gpt4all", "mock_ai">>

HelperOrder == <<"openrouter", "cohere", "huggingface", "ollama", "gpt4all", "mock_ai">>

\* the order in which the chain of a request is expected to try providers
ExpectedOrder(op) ==
  IF op = "api_summarize" THEN <<"openrouter", "gemini">> \o HelperOrder
  ELSE IF op = "api_summarize_document" THEN HelperOrder
  ELSE PriorityOrder

CallNames(calls) == [i \in 1..Len(calls) |-> calls[i].p]

CalledOnce ==
  \A i, j \in 1..Len(resp.calls) : i # j => resp.calls[i].p # resp.calls[j].p

\* C8 as stated: when every provider failed on a summarize request with at
\* least one hit, the newest cache row of the patient is the fallback.
FallbackStored ==
  (resp.op \in {"api_summarize", "app_summarize"} /\ resp.kind = "fallback" /\ resp.n >= 1)
    => Len(RowsOf(resp.pid)) > 0 /\ Newest(RowsOf(resp.pid)).source = "fallback"

\* C8 amended: the deterministic fallback is returned without a cache write;
\* no summary_cache row ever has source "fallback", so no lookup is served it.
FallbackNotStored == \A i \in 1..Len(rows) : rows[i].source # "fallback"

\* a fallback built from at least one hit was returned while the cache holds
\* a row of an earlier generation
FallbackNotStoredWitness ==
  /\ resp.op \in {"api_summarize", "app_summarize"}
  /\ resp.kind = "fallback"
  /\ resp.n >= 1
  /\ Len(rows) > 0

\* C9: the deterministic fallback never raises, null note text included: a
\* summarize request on which every provider failed is answered.
FallbackNeverRaises ==
  resp.op \in {"api_summarize", "app_summarize"} => resp.kind # "fallback_error"

\* the requests that call generation providers, with app.py's canned
\* document summary
GeneratingOps ==
  {"api_summarize", "app_summarize", "api_qa", "app_qa",
   "api_summarize_document", "app_summarize_document"}

\* C10: no combination of provider failures becomes an HTTP 500 of
\* summarize, qa or document-summarize.
NoProviderFailureIs500 == resp.op \in GeneratingOps => resp.status # 500

\* a step of the clock alone: no request answered, rows only age
ClockStep ==
  /\ resp' = resp
  /\ Len(rows') = Len(rows)
  /\ \A i \in 1..Len(rows) : rows'[i] \in {rows[i], [rows[i] EXCEPT !.expired = TRUE]}

\* C11: the cache is consulted before retrieval and generation: a summarize
\* request served from the cache returns the payload of a row of the patient,
\* runs no index query, calls no provider and leaves the cache rows as they
\* were.
CacheFirst ==
  [][(resp'.kind = "cached" /\ ~ClockStep)
       => /\ rows' = rows
          /\ resp'.calls = <<>>
          /\ ~resp'.queried
          /\ \E i \in 1..Len(rows) :
               /\ rows[i].patient_id = resp'.pid
               /\ rows[i].payload = resp'.payload
               /\ rows[i].payload # "malformed"]_vars

\* a summarize request of app.py was served from a cache row while the index
\* holds chunks to retrieve
CacheFirstWitness ==
  /\ resp.op = "app_summarize"
  /\ resp.kind = "cached"
  /\ Len(metaFile) > 0
  /\ \E i \in 1..Len(rows) : rows[i].patient_id = resp.pid

\* C12: a provider output that lacks one_line or bullets is that provider's
\* failure: a summarize response that names a provider was built from an
\* output holding both keys, and no cache row holds anything else.
SchemaFailureAdvances ==
  /\ (resp.op \in {"api_summarize", "app_summarize"} /\ resp.provider # "none"
        /\ resp.kind # "cached")
       => resp.calls[Len(resp.calls)].out = "ok"
  /\ \A i \in 1..Len(rows) : rows[i].payload \notin {"translated", "odd"}

Brief(s, budget, raw) ==
  /\ Len(s.words) <= budget
  /\ s.ellipsis <=> Len(raw.words) > budget

\* C13: brevity is enforced on every validated contract whichever provider
\* produced it: one_line has at most 12 words and ends with "..." exactly
\* when it was truncated, and bullets has at most 4 entries, each within its
\* word budget.
BrevityEnforced ==
  ret.fn = "generate_json_summary"
    => /\ Brief(ret.contract.one_line, OneLineBudget, ret.raw.one_line)
       /\ Len(ret.contract.bullets) <= 4
       /\ \A i \in 1..Len(ret.contract.bullets) :
            Len(ret.contract.bullets[i].words) <= HF_BULLET_WORD_LIMIT

\* C14: chunk_text terminates for every text and every pair (max_tokens,
\* overlap), overlap >= max_tokens on a text of more than max_tokens words
\* included: the window start strictly increases at every turn of the loop,
\* so it passes the word count.
ChunkTerminates ==
  [][(ret.fn = "chunk_text" /\ ret'.fn = "chunk_text" /\ ret.pc = "loop" /\ ret'.pc = "loop")
       => ret'.i > ret.i]_vars

ChunkReturned == ret.fn = "chunk_text" /\ ret.pc = "done"

\* the words [start, start + max_tokens) of the text, for the j-th start
Window(words, j, max_tokens, stride) ==
  [m \in 1..Min(max_tokens, Len(words) - (j - 1) * stride) |-> words[(j - 1) * stride + m]]

\* C15: for a text of more than max_tokens words and overlap < max_tokens,
\* chunk_text returns one chunk per window start 0, s, 2s, ... below the
\* word count (s = max_tokens - overlap), each the words
\* [start, start + max_tokens) joined by single spaces.
ChunkWindows ==
  (ChunkReturned /\ Len(Words(ret.text)) > ret.max_tokens /\ ret.overlap < ret.max_tokens)
    => LET words == Words(ret.text)
           stride == ret.max_tokens - ret.overlap
           starts == (Len(words) + stride - 1) \div stride
       IN /\ Len(ret.chunks) = starts
          /\ \A j \in 1..starts :
               ret.chunks[j] = Window(words, j, ret.max_tokens, stride)

\* a text of 3 words, some after a run of whitespace, was cut with
\* overlapping windows and the last chunk is shorter than max_tokens
ChunkWindowsWitness ==
  /\ ChunkReturned
  /\ Len(Words(ret.text)) = 3 /\ Len(ret.text) > 3
  /\ ret.max_tokens = 2 /\ ret.overlap = 1
  /\ Len(ret.chunks) = 3
  /\ Len(ret.chunks[3]) < ret.max_tokens

\* C16: for a text of at most max_tokens words, the empty text and a count
\* equal to max_tokens included, chunk_text returns a one-element list
\* holding the original text unchanged.
ShortTextUnchanged ==
  (ChunkReturned /\ Len(Words(ret.text)) <= ret.max_tokens) => ret.chunks = <<ret.text>>

\* a text of exactly max_tokens words with extra whitespace was returned
ShortTextUnchangedWitness ==
  /\ ChunkReturned
  /\ Len(Words(ret.text)) = ret.max_tokens
  /\ Len(ret.text) > ret.max_tokens
  /\ ret.overlap >= ret.max_tokens

\* C17: whenever the patient has at least k chunks in the index,
\* query(patient, q, k) returns k hits, however many chunks of other
\* patients rank closer to the query.
FullKHits ==
  [][(/\ qres' # qres
      /\ qres'.patient_id # NoPatient
      /\ qres'.k >= 1
      /\ Len(Candidates(rMeta', qres'.patient_id)) >= qres'.k)
       => (qres'.hits # Raised /\ Len(qres'.hits) = qres'.k)]_vars

\* C18: query(patient, q, k) with k >= 1 returns at most k hits, in
\* non-increasing score order, on the approximate branch and on the
\* brute-force branch.
TopKOrdered ==
  (qres.branch \in {"hnsw", "brute"} /\ qres.hits # Raised)
    => /\ Len(qres.hits) <= qres.k
       /\ \A i, j \in 1..Len(qres.hits) :
            i < j => qres.hits[i].score >= qres.hits[j].score

\* a brute-force query returned two hits of different scores
TopKOrderedWitness ==
  /\ qres.branch = "brute"
  /\ Len(qres.hits) = 2
  /\ qres.hits[1].score > qres.hits[2].score

\* C19: a query against an index that was never built, was built from no
\* note or has lost its metadata attempts one lazy load and returns the
\* empty list rather than raising; so does a query for a patient without a
\* chunk in the index, and one on the brute-force branch without the
\* embeddings file.
EmptyNotError ==
  [][qres' # qres
       => /\ (Len(rMeta) = 0 /\ Len(metaFile) = 0)
               => (rIndex' = LoadedIndex /\ qres'.hits = <<>>)
          /\ Len(Candidates(rMeta', qres'.patient_id)) = 0 => qres'.hits = <<>>
          /\ (qres'.branch = "brute" /\ embFile = NoFile) => qres'.hits = <<>>]_vars

\* a brute-force query for a patient with a chunk in the metadata found no
\* embeddings file, after a lazy load, and answered the empty list
EmptyNotErrorWitness ==
  /\ qres.branch = "brute"
  /\ Len(Candidates(rMeta, qres.patient_id)) >= 1
  /\ metaFile = rMeta
  /\ embFile = NoFile
  /\ qres.hits = <<>>

\* C20: a rebuild is atomic with respect to queries: in every interleaving
\* of build() with load() and query() of another RAGIndex, the vectors a
\* query uses are those of the generation of the metadata it uses.
QueryOneGeneration ==
  [][qres' # qres
       => /\ qres'.branch = "hnsw" => rIndex' = Embeddings(rMeta')
          /\ qres'.branch = "brute" => embFile = Embeddings(rMeta')]_vars

\* the hits of query(patient_id, q, k) of a new RAGIndex on the persisted
\* files, without hnswlib
PersistedHits(patient_id, qe, k) ==
  QueryLoaded(metaFile, NoFile, embFile, patient_id, qe, k, <<>>)

\* C21: build is deterministic on the brute-force backend: a second build
\* over the same note set persists the same metadata order and vectors, so
\* every query returns the same hits after it as before it, notes sharing a
\* note_date included.
BuildDeterministic ==
  [][/\ metaFile' = metaFile
     /\ embFile' = embFile
     /\ \A pid \in Patients, qe \in 0..MaxEmb, k \in 1..MaxK :
          PersistedHits(pid, qe, k)' = PersistedHits(pid, qe, k)]_vars

\* C22: a failure of the cache store on read or on write never fails the
\* summarize request: no summarize request ends in an error before it has
\* retrieved or called a provider, and none that generated a summary ends in
\* an error.
CacheFailureTolerated ==
  (resp.op \in {"api_summarize", "app_summarize"} /\ resp.status = 500)
    => /\ resp.queried \/ resp.calls # <<>>
       /\ resp.provider = "none"

\* C23: both freshness policies are honoured: app/api/summarize.py never
\* returns a row older than its one-hour window and regenerates instead;
\* app.py returns the newest stored row of the patient whatever its age, as
\* long as no invalidation has deleted it.
FreshnessHonoured ==
  [][~ClockStep
       => /\ (resp'.op = "api_summarize" /\ resp'.kind = "cached")
               => \E i \in 1..Len(rows) :
                    /\ rows[i].patient_id = resp'.pid
                    /\ ~rows[i].expired
                    /\ rows[i].payload = resp'.payload
          /\ (resp'.op = "api_summarize" /\ resp'.status = 200
                /\ \A i \in 1..Len(rows) : rows[i].patient_id = resp'.pid => rows[i].expired)
               => resp'.kind # "cached"
          /\ (resp'.op = "app_summarize" /\ Len(RowsOf(resp'.pid)) > 0)
               => /\ resp'.kind = "cached"
                  /\ resp'.payload = Newest(RowsOf(resp'.pid)).payload]_vars

\* app.py served a row older than one hour, which app/api/summarize.py
\* would not serve
FreshnessHonouredWitness ==
  /\ resp.op = "app_summarize"
  /\ resp.kind = "cached"
  /\ Len(RowsOf(resp.pid)) > 0
  /\ Newest(RowsOf(resp.pid)).expired
  /\ ~ApiCached(resp.pid)

\* C24: validation round-trips: a contract with one_line within the word
\* budget, 2 to 4 bullets within theirs and numeric sources, serialized to
\* JSON text and passed through a wrapper's parse-and-validate steps, comes
\* back equal.
ValidationRoundTrips == ret.fn = "validate" => ret.out = ret.contract

SummarizeOps == {"api_summarize", "app_summarize"}

\* C25: a stored payload that is not JSON is a miss and the request
\* regenerates; once a regeneration has succeeded and is stored, the next
\* summarize request for the patient is served the regenerated payload, and
\* no request is ever served the malformed one.
MalformedIsMiss ==
  [][(~ClockStep /\ resp'.op \in SummarizeOps)
       => /\ resp'.payload # "malformed"
          /\ (Len(RowsOf(resp'.pid)) > 0 /\ Newest(RowsOf(resp'.pid)).payload = "malformed")
               => resp'.kind # "cached"
          /\ (/\ resp.op \in SummarizeOps
              /\ resp.pid = resp'.pid
              /\ resp.kind = "generated"
              /\ Len(FreshRowsOf(resp.pid)) > 0
              /\ Newest(RowsOf(resp.pid)).payload = resp.payload)
               => (resp'.kind = "cached" /\ resp'.payload = resp.payload)]_vars

\* a request was served the regenerated payload while the row that is not
\* JSON is still in the table
MalformedIsMissWitness ==
  /\ resp.op \in SummarizeOps
  /\ resp.kind = "cached"
  /\ resp.payload = "contract"
  /\ \E i \in 1..Len(rows) :
       rows[i].patient_id = resp.pid /\ rows[i].payload = "malformed"

\* C26: a Cohere generation that fails on transient network errors
\* (HTTPError, RequestException) has been attempted again each time: it fails
\* only after the fourth attempt, and no request makes more than four.
CohereRetriedOnTransient ==
  ret.fn = "cohere"
    => /\ ret.attempt <= StopAfterAttempt
       /\ (ret.out = "raise" /\ \A a \in 1..ret.attempt : ret.net[a] \in Transient)
            => ret.attempt = StopAfterAttempt

\* a response of a summarize endpoint made without a provider's answer: the
\* no-notes placeholder, or the deterministic fallback (returned or failed)
Degraded(r) == r.op \in SummarizeOps /\ r.kind \in {"placeholder", "fallback", "fallback_error"}

\* C27: a summarize request answered without a successful provider call
\* (placeholder, fallback) writes nothing to summary_cache, every row was
\* written for a provider that answered, and every cache hit serves such a row.
DegradedNotCached ==
  [][~ClockStep
       => /\ Degraded(resp') => rows' = rows
          /\ \A i \in 1..Len(rows') :
               (\A j \in 1..Len(rows) : rows[j] # rows'[i])
                 => /\ resp'.calls # <<>>
                    /\ resp'.calls[Len(resp'.calls)].out \in WinKinds(resp'.provider)
                    /\ rows'[i].source = resp'.provider
          /\ (resp'.op \in SummarizeOps /\ resp'.kind = "cached")
               => resp'.provider \notin {"none", "fallback"}]_vars

\* app/api/summarize.py returned the fallback after every provider of its
\* chain was called, and the patient has no cache row
DegradedNotCachedWitness ==
  /\ resp.op = "api_summarize"
  /\ resp.kind = "fallback"
  /\ Len(resp.calls) = Len(ApiSummarizeOrder)
  /\ RowsOf(resp.pid) = <<>>

\* C28: no summary made from the notes of a patient as they were before a
\* note was created or deleted stays in the cache: a request writes its row
\* only for the notes as they are at the write, and a creation or deletion
\* leaves no row of the patient behind.
NoStaleSummaryCached ==
  [][/\ \A r \in Reqs :
          (reqs[r].pc = "store" /\ reqs'[r].pc = "done")
            => reqs[r].seen = NotesOf(reqs[r].pid)
     /\ \A p \in Patients :
          SelectSeq(notes', LAMBDA n : n.patient_id = p) # NotesOf(p)
            => SelectSeq(rows', LAMBDA w : w.patient_id = p) = <<>>]_vars

\* C29: cache operations are local to a patient: a request about patient p
\* (a store, an invalidation) leaves the rows of every other patient as they
\* were, and a cache hit for p serves a row stored for p.
PatientLocal ==
  [][~ClockStep
       => /\ \A q \in Patients \ {resp'.pid} :
               SelectSeq(rows', LAMBDA w : w.patient_id = q) = RowsOf(q)
          /\ (resp'.op \in SummarizeOps /\ resp'.kind = "cached")
               => \E i \in 1..Len(rows) :
                    /\ rows[i].patient_id = resp'.pid
                    /\ rows[i].source = resp'.provider
                    /\ rows[i].payload = resp'.payload]_vars

\* a note handler of app.py has invalidated the cache of its patient while
\* another patient has a row
PatientLocalWitness ==
  /\ resp.op \in {"app_add_note", "app_delete_note"}
  /\ resp.status = 200
  /\ RowsOf(resp.pid) = <<>>
  /\ \E i \in 1..Len(rows) : rows[i].patient_id # resp.pid

\* the words chunk j + 1 has in common with chunk j
Shared(chunks, j, overlap) == Min(overlap, Len(chunks[j + 1]))

\* the chunks put end to end, each without the words it shares with the
\* chunk before it
RECURSIVE Unoverlap(_, _, _)
Unoverlap(chunks, j, overlap) ==
  IF j > Len(chunks) THEN <<>>
  ELSE (IF j = 1 THEN chunks[1]
        ELSE SubSeq(chunks[j], Shared(chunks, j - 1, overlap) + 1, Len(chunks[j])))
       \o Unoverlap(chunks, j + 1, overlap)

\* C30: for a text of more than max_tokens words and overlap < max_tokens,
\* the chunks cover the text: every chunk has between one and max_tokens
\* words, the last min(overlap, length of the later chunk) words of a chunk
\* are the first words of the next one, and the chunks laid end to end without
\* those shared words are the words of the text, each once and in order.
ChunksCover ==
  (ChunkReturned /\ Len(Words(ret.text)) > ret.max_tokens /\ ret.overlap < ret.max_tokens)
    => /\ \A j \in 1..Len(ret.chunks) :
            Len(ret.chunks[j]) >= 1 /\ Len(ret.chunks[j]) <= ret.max_tokens
       /\ \A j \in 1..(Len(ret.chunks) - 1) :
            LET m == Shared(ret.chunks, j, ret.overlap)
                c == ret.chunks[j]
            IN /\ m <= Len(c)
               /\ SubSeq(c, Len(c) - m + 1, Len(c)) = SubSeq(ret.chunks[j + 1], 1, m)
       /\ Unoverlap(ret.chunks, 1, ret.overlap) = Words(ret.text)

\* a text of 4 words, not all the same, was cut into overlapping chunks and
\* the last chunk is wholly shared with the one before it
ChunksCoverWitness ==
  /\ ChunkReturned
  /\ Words(ret.text) = <<1, 2, 2, 1>>
  /\ ret.max_tokens = 2 /\ ret.overlap = 1
  /\ Len(ret.chunks) = 4
  /\ Len(ret.chunks[4]) = 1

====
